---- MODULE Spec2Model ----
(***************************************************************************)
(* Model of the asynchronous task module singleton of go.uber.org/fx       *)
(* (modules/task/task.go): the one-time installation of the task backend   *)
(* through the function returned by NewModule, and the concurrent reads of *)
(* the global backend through GlobalBackend().                             *)
(*                                                                         *)
(* Every install call is a goroutine Calls[i] with its own create-info     *)
(* (host i) and its own factory (createFunc i), which, when it is run,     *)
(* returns the backend Backend(i), returns the error Err(i), or panics, and *)
(* which may call GlobalBackend() itself while it runs.                    *)
(* Every reader is a goroutine that calls GlobalBackend() again and again, *)
(* MaxReads calls being made in all.  _once is modelled as Go's sync.Once  *)
(* (a done flag and a mutex), _globalBackendMu as Go's sync.RWMutex (a     *)
(* pending writer bars new readers).                                       *)
(* The metrics setup an install call makes before its factory may panic   *)
(* (a nil host), and service code may call SetupTaskMetrics itself.        *)
(***************************************************************************)
EXTENDS Integers, Sequences, FiniteSets

\* Bounds of the model.
NumCalls == 2
NumReaders == 1
MaxReads == 2
\* Calls of SetupTaskMetrics made by service code, outside any install call.
MaxDirect == 1
\* Registry: functions that may be registered, backend messages kept.
NumFns == 3
MaxQueue == 3
\* uhttp options: filters passed to one WithFilters call, options applied to
\* the create-info, filters stored in it beforehand.
MaxArgs == 2
MaxApply == 2
MaxStored == 1

Calls == 1..NumCalls
Readers == 1..NumReaders

\* The default backend, &NopBackend{} (task.go:40).
Nop == 0
\* The nil error, the zero value of _asyncModErr (task.go:42).
NilErr == 0
\* The nil module, the zero value of _asyncMod (task.go:41).
NilModule == [nil |-> TRUE]

\* What the factory of call i yields, and the host of its create-info.
Backend(i) == i
Err(i) == i
Host(i) == i

\* &AsyncModule{Backend: backend, modBase: NewModuleBase("task", mi.Host, ...)}
AsyncModule(b, h) == [Backend |-> b, host |-> h]

\* The ways a run of createFunc(mi.Host) can end.
Outcomes == {"ok", "err", "panic"}

\* The ways SetupTaskMetrics(mi.Host.Metrics()) can end inside an install
\* call: mi.Host may be nil, or its Metrics() may panic.
MetricsOutcomes == {"ok", "panic"}

\* The scope service code passes when it calls SetupTaskMetrics itself.
ServiceScope == 0

VARIABLES
    _globalBackend,   \* the global backend reference
    muWriter,         \* _globalBackendMu: the call holding the write lock, or 0
    muWaiting,        \* _globalBackendMu: a writer has announced itself
    muReaders,        \* _globalBackendMu: the holders of a read lock: reader r,
                      \* or -i for the factory of call i
    _asyncMod,        \* the stored module
    _asyncModErr,     \* the stored error
    onceDone,         \* _once: the done flag
    onceM,            \* _once: the call holding the mutex, or 0
    pc,               \* position of each install call
    local,            \* newAsyncModule's locals (backend, err) and its return value
    ran,              \* how many times the factory of each call was invoked
    outcome,          \* how the run of each call's factory ended
    inner,            \* the running factory's local: what its GlobalBackend()
                      \* call returned, <<>> or <<backend>>
    metricsScopes,    \* the metrics setups made by install calls, in order:
                      \* the scope given and the call that gave it
    directSetups,     \* the metrics setups made by service code: the scopes
                      \* it gave to SetupTaskMetrics, in order
    result,           \* what each install call returned: <<>> or <<[mods, err]>>
    callSnap,         \* what the install call could see when it started
    rpc,              \* position of each reader
    reads,            \* number of GlobalBackend() calls started so far
    rret,             \* what the reader's last GlobalBackend() call returned,
                      \* <<>> while its next call is in progress
    readSnap,         \* what the reader's current call could see when it started
    observed,         \* every value some GlobalBackend() call has returned
    \* The function registry behind task.Register and task.Enqueue.
    fnLookup,         \* the process-wide lookup: identifier -> function
    registered,       \* the functions Register has accepted
    enqueued,         \* the identifiers handed to the backend, in order
    enqResult,        \* the last Enqueue call: <<>> or <<[fn, err]>>
    \* One service.ModuleCreateInfo and the uhttp options applied to it.
    Items,            \* mci.Items: NilItems or a map from keys to values
    items0,           \* mci.Items as it was before the first option
    expected,         \* the filters stored at first, then every filter passed
                      \* to a WithFilters option that returned, in order
    optResult,        \* how the last option application ended
    napplied,         \* number of option applications so far
    got               \* what the last filtersFromCreateInfo call yielded

taskVars == <<_globalBackend, muWriter, muWaiting, muReaders, _asyncMod,
              _asyncModErr, onceDone, onceM, pc, local, ran, outcome, inner,
              metricsScopes, directSetups, result, callSnap, rpc, reads, rret,
              readSnap, observed>>
registryVars == <<fnLookup, registered, enqueued, enqResult>>
filterVars == <<Items, items0, expected, optResult, napplied, got>>
\* What the task module's steps leave alone.
aside == <<registryVars, filterVars>>

vars == <<taskVars, registryVars, filterVars>>

globals == <<_globalBackend, muWriter, muWaiting, muReaders, _asyncMod, _asyncModErr,
             onceDone, onceM>>
installer == <<pc, local, ran, outcome, inner, metricsScopes, directSetups, result,
               callSnap>>
reader == <<rpc, reads, rret, readSnap, observed>>

NoLocal == [backend |-> Nop, err |-> NilErr, mod |-> NilModule]

\* Some install call has returned with a nil error.
InstallSucceeded ==
    \E i \in Calls : result[i] # <<>> /\ result[i][1].err = NilErr

\* Some install call has returned, with an error or without.
InstallReturned == \E i \in Calls : result[i] # <<>>

\* The factory of some call is running.
FactoryRunning == \E i \in Calls : outcome[i] = "running"

\* What an install call records when it starts: whether a factory was
\* running, whether an install call had returned, and, once one had returned
\* with a nil error, the shared state as it then was.
CallSnapshot ==
    [during |-> FactoryRunning,
     after |-> InstallReturned,
     succ |-> IF InstallSucceeded
                THEN <<[gb |-> _globalBackend, mod |-> _asyncMod,
                        err |-> _asyncModErr, ran |-> ran,
                        scopes |-> metricsScopes]>>
                ELSE <<>>]

TaskInit ==
    /\ _globalBackend = Nop
    /\ muWriter = 0
    /\ muWaiting = FALSE
    /\ muReaders = {}
    /\ _asyncMod = NilModule
    /\ _asyncModErr = NilErr
    /\ onceDone = FALSE
    /\ onceM = 0
    /\ pc = [i \in Calls |-> "idle"]
    /\ local = [i \in Calls |-> NoLocal]
    /\ ran = [i \in Calls |-> 0]
    /\ outcome = [i \in Calls |-> "none"]
    /\ inner = [i \in Calls |-> <<>>]
    /\ metricsScopes = <<>>
    /\ directSetups = <<>>
    /\ result = [i \in Calls |-> <<>>]
    /\ callSnap = [i \in Calls |-> <<>>]
    /\ rpc = [r \in Readers |-> "idle"]
    /\ reads = 0
    /\ rret = [r \in Readers |-> <<>>]
    /\ readSnap = [r \in Readers |-> <<>>]
    /\ observed = {}

----------------------------------------------------------------------------
(* sync.Once *)

\* The done flag, read by Once.Do's fast path (an atomic load) and again by
\* doSlow under the mutex: f is run only while it is unset.
\* Faulty variants: a once that forgets a failed run, and no once at all.
OnceIsDone_RetryOnError == onceDone /\ _asyncModErr = NilErr
OnceIsDone_Never == FALSE
OnceIsDone == onceDone

\* doSlow's o.m.Lock(): the mutex is free.
\* Faulty variant: Broken takes no mutex, so two calls may both run f.
OnceMutexFree_Broken == TRUE
OnceMutexFree == onceM = 0

----------------------------------------------------------------------------
(* The install call: NewModule(createFunc)(mi) *)

\* The call starts: newAsyncModuleSingleton enters _once.Do.
Install(i) ==
    /\ pc[i] = "idle"
    /\ pc' = [pc EXCEPT ![i] = IF OnceIsDone THEN "ret" ELSE "onceLock"]
    /\ callSnap' = [callSnap EXCEPT ![i] = <<CallSnapshot>>]
    /\ UNCHANGED aside
    /\ UNCHANGED <<globals, local, ran, outcome, inner, metricsScopes, directSetups, result, reader>>

\* doSlow: take the mutex, then run f only if done is still unset.
OnceLock(i) ==
    /\ pc[i] = "onceLock"
    /\ OnceMutexFree
    /\ IF OnceIsDone
         THEN /\ pc' = [pc EXCEPT ![i] = "ret"]
              /\ UNCHANGED onceM
         ELSE /\ pc' = [pc EXCEPT ![i] = "metrics"]
              /\ onceM' = i
    /\ UNCHANGED aside
    /\ UNCHANGED <<_globalBackend, muWriter, muWaiting, muReaders, _asyncMod,
                   _asyncModErr, onceDone, local, ran, outcome, inner, metricsScopes, directSetups,
                   result, callSnap, reader>>

\* func SetupTaskMetrics(scope): stats.SetupTaskMetrics(scope), on behalf of
\* install call by, or of service code (by = 0).
SetupTaskMetrics(scope, by) ==
    IF by = 0
      THEN /\ directSetups' = Append(directSetups, scope)
           /\ UNCHANGED metricsScopes
      ELSE /\ metricsScopes' = Append(metricsScopes, [scope |-> scope, by |-> by])
           /\ UNCHANGED directSetups

\* newAsyncModule: SetupTaskMetrics(mi.Host.Metrics()).  When mi.Host is nil
\* or Metrics() panics (o = "panic"), no setup is made and createFunc is not
\* invoked: the panic unwinds into Once.doSlow, whose deferred calls set done
\* and release the mutex, and the install call does not return.
InstallSetupTaskMetrics(i, o) ==
    /\ pc[i] = "metrics"
    /\ IF o = "panic"
         THEN /\ pc' = [pc EXCEPT ![i] = "panicked"]
              /\ onceDone' = TRUE
              /\ onceM' = 0
              /\ UNCHANGED <<metricsScopes, directSetups>>
         ELSE /\ SetupTaskMetrics(Host(i), i)
              /\ pc' = [pc EXCEPT ![i] = "create"]
              /\ UNCHANGED <<onceDone, onceM>>
    /\ UNCHANGED aside
    /\ UNCHANGED <<_globalBackend, muWriter, muWaiting, muReaders, _asyncMod,
                   _asyncModErr, local, ran, outcome, inner, result, callSnap,
                   reader>>

\* Service code calls the exported SetupTaskMetrics(scope) itself, on any
\* goroutine, before, during or after an install call.
DirectSetupTaskMetrics ==
    /\ Len(directSetups) < MaxDirect
    /\ SetupTaskMetrics(ServiceScope, 0)
    /\ UNCHANGED aside
    /\ UNCHANGED <<globals, pc, local, ran, outcome, inner, result, callSnap,
                   reader>>

\* newAsyncModule: createFunc(mi.Host) is invoked.
CreateFuncCall(i) ==
    /\ pc[i] = "create"
    /\ ran' = [ran EXCEPT ![i] = @ + 1]
    /\ outcome' = [outcome EXCEPT ![i] = "running"]
    /\ pc' = [pc EXCEPT ![i] = "creating"]
    /\ UNCHANGED aside
    /\ UNCHANGED <<globals, local, inner, metricsScopes, directSetups, result, callSnap, reader>>

\* Where newAsyncModule goes when createFunc has returned (backend, err):
\* err != nil returns (nil, err) at once, otherwise the backend is stored.
\* Faulty variant: IgnoreErr stores the backend whatever the error.
AfterCreate_IgnoreErr(err) == "lock"
AfterCreate(err) == IF err # NilErr THEN "assign" ELSE "lock"

\* createFunc returns (o = "ok" or "err") or panics (o = "panic").  A factory
\* that returns an error may return a backend with it, as the factory of call
\* i does here: Backend(i) together with Err(i).  A panic
\* unwinds through newAsyncModule and the closure into Once.doSlow, whose
\* deferred calls set done and release the mutex; the install call does not
\* return.
CreateFuncReturn(i, o) ==
    /\ pc[i] \in {"creating", "innerDone"}
    /\ outcome' = [outcome EXCEPT ![i] = o]
    /\ inner' = [inner EXCEPT ![i] = <<>>]
    /\ IF o = "panic"
         THEN /\ pc' = [pc EXCEPT ![i] = "panicked"]
              /\ onceDone' = TRUE
              /\ onceM' = 0
              /\ UNCHANGED local
         ELSE /\ LET err == IF o = "err" THEN Err(i) ELSE NilErr
                 IN /\ local' = [local EXCEPT ![i] =
                                   [backend |-> Backend(i), err |-> err,
                                    mod |-> NilModule]]
                    /\ pc' = [pc EXCEPT ![i] = AfterCreate(err)]
              /\ UNCHANGED <<onceDone, onceM>>
    /\ UNCHANGED aside
    /\ UNCHANGED <<_globalBackend, muWriter, muWaiting, muReaders, _asyncMod,
                   _asyncModErr, ran, metricsScopes, directSetups, result, callSnap, reader>>

\* _globalBackendMu.Lock(), first half: the writer announces itself, which
\* bars new readers.
Lock(i) ==
    /\ pc[i] = "lock"
    /\ muWriter = 0 /\ ~muWaiting
    /\ muWaiting' = TRUE
    /\ pc' = [pc EXCEPT ![i] = "lockWait"]
    /\ UNCHANGED aside
    /\ UNCHANGED <<_globalBackend, muWriter, muReaders, _asyncMod, _asyncModErr,
                   onceDone, onceM, local, ran, outcome, inner, metricsScopes, directSetups, result,
                   callSnap, reader>>

\* _globalBackendMu.Lock(), second half: the active readers have left.
LockAcquire(i) ==
    /\ pc[i] = "lockWait"
    /\ muReaders = {}
    /\ muWriter' = i
    /\ muWaiting' = FALSE
    /\ pc' = [pc EXCEPT ![i] = "store"]
    /\ UNCHANGED aside
    /\ UNCHANGED <<_globalBackend, muReaders, _asyncMod, _asyncModErr, onceDone,
                   onceM, local, ran, outcome, inner, metricsScopes, directSetups, result, callSnap,
                   reader>>

\* The value newAsyncModule assigns to _globalBackend.
\* Faulty variant: Nop leaves the default backend in place.
StoredBackend_Nop(i) == Nop
StoredBackend(i) == local[i].backend

\* _globalBackend = backend
Store(i) ==
    /\ pc[i] = "store"
    /\ _globalBackend' = StoredBackend(i)
    /\ pc' = [pc EXCEPT ![i] = "unlock"]
    /\ UNCHANGED aside
    /\ UNCHANGED <<muWriter, muWaiting, muReaders, _asyncMod, _asyncModErr,
                   onceDone, onceM, local, ran, outcome, inner, metricsScopes, directSetups, result,
                   callSnap, reader>>

\* _globalBackendMu.Unlock(); return &AsyncModule{...}, nil
Unlock(i) ==
    /\ pc[i] = "unlock"
    /\ muWriter' = 0
    /\ local' = [local EXCEPT ![i].mod = AsyncModule(local[i].backend, Host(i)),
                              ![i].err = NilErr]
    /\ pc' = [pc EXCEPT ![i] = "assign"]
    /\ UNCHANGED aside
    /\ UNCHANGED <<_globalBackend, muWaiting, muReaders, _asyncMod, _asyncModErr,
                   onceDone, onceM, ran, outcome, inner, metricsScopes, directSetups, result, callSnap,
                   reader>>

\* _asyncMod, _asyncModErr = newAsyncModule(mi, createFunc); the closure
\* returns and doSlow's deferred calls set done and release the mutex.
OnceFinish(i) ==
    /\ pc[i] = "assign"
    /\ _asyncMod' = local[i].mod
    /\ _asyncModErr' = local[i].err
    /\ onceDone' = TRUE
    /\ onceM' = 0
    /\ pc' = [pc EXCEPT ![i] = "ret"]
    /\ UNCHANGED aside
    /\ UNCHANGED <<_globalBackend, muWriter, muWaiting, muReaders, local, ran,
                   outcome, inner, metricsScopes, directSetups, result, callSnap, reader>>

\* What the function returned by NewModule returns: []service.Module{mod}, err
\* Faulty variant: NoModuleOnError returns an empty list with an error.
Returned_NoModuleOnError(mod, err) ==
    [mods |-> IF err # NilErr THEN <<>> ELSE <<mod>>, err |-> err]
Returned(mod, err) == [mods |-> <<mod>>, err |-> err]

\* What newAsyncModuleSingleton returns: _asyncMod, _asyncModErr
\* Faulty variant: Local returns the call's own locals, not the shared pair.
SingletonResult_Local(i) == Returned(local[i].mod, local[i].err)
SingletonResult(i) == Returned(_asyncMod, _asyncModErr)

\* return _asyncMod, _asyncModErr
Return(i) ==
    /\ pc[i] = "ret"
    /\ result' = [result EXCEPT ![i] = <<SingletonResult(i)>>]
    /\ pc' = [pc EXCEPT ![i] = "done"]
    /\ UNCHANGED aside
    /\ UNCHANGED <<globals, local, ran, outcome, inner, metricsScopes, directSetups, callSnap, reader>>

----------------------------------------------------------------------------
(* GlobalBackend() *)

\* What a GlobalBackend() call records when it starts: whether an install
\* call had returned, whether one had returned with a nil error, and what the
\* GlobalBackend() calls before it have returned.
ReadSnapshot ==
    [after |-> InstallReturned, succ |-> InstallSucceeded, seen |-> observed]

\* _globalBackendMu.RLock() succeeds when no writer holds or awaits the lock.
\* Faulty variant: WaitsForInstall also waits for the once to be free, as a
\* reader sharing the installer's lock would.
CanRLock_WaitsForInstall == muWriter = 0 /\ ~muWaiting /\ onceM = 0
CanRLock == muWriter = 0 /\ ~muWaiting

\* The call starts: GlobalBackend() is entered.
GlobalBackendCall(r) ==
    /\ rpc[r] = "idle"
    /\ reads < MaxReads
    /\ readSnap' = [readSnap EXCEPT ![r] = <<ReadSnapshot>>]
    /\ reads' = reads + 1
    /\ rret' = [rret EXCEPT ![r] = <<>>]
    /\ rpc' = [rpc EXCEPT ![r] = "rlock"]
    /\ UNCHANGED aside
    /\ UNCHANGED <<globals, installer, observed>>

\* _globalBackendMu.RLock(): the call waits while an install call holds or
\* awaits the write lock.
GlobalBackendRLock(r) ==
    /\ rpc[r] = "rlock"
    /\ CanRLock
    /\ muReaders' = muReaders \cup {r}
    /\ rpc' = [rpc EXCEPT ![r] = "rlocked"]
    /\ UNCHANGED aside
    /\ UNCHANGED <<_globalBackend, muWriter, muWaiting, _asyncMod, _asyncModErr,
                   onceDone, onceM, installer, reads, rret, readSnap, observed>>

\* return _globalBackend, then the deferred RUnlock().
GlobalBackendReturn(r) ==
    /\ rpc[r] = "rlocked"
    /\ rret' = [rret EXCEPT ![r] = <<_globalBackend>>]
    /\ observed' = observed \cup {_globalBackend}
    /\ muReaders' = muReaders \ {r}
    /\ rpc' = [rpc EXCEPT ![r] = "idle"]
    /\ UNCHANGED aside
    /\ UNCHANGED <<_globalBackend, muWriter, muWaiting, _asyncMod, _asyncModErr,
                   onceDone, onceM, installer, reads, readSnap>>

----------------------------------------------------------------------------
(* GlobalBackend() called by the factory while it runs *)

\* The running factory of call i calls GlobalBackend().
FactoryCallsGlobalBackend(i) ==
    /\ pc[i] = "creating"
    /\ pc' = [pc EXCEPT ![i] = "innerRLock"]
    /\ UNCHANGED aside
    /\ UNCHANGED <<globals, local, ran, outcome, inner, metricsScopes, directSetups, result,
                   callSnap, reader>>

\* _globalBackendMu.RLock(), on the goroutine that holds the once.
FactoryRLock(i) ==
    /\ pc[i] = "innerRLock"
    /\ CanRLock
    /\ muReaders' = muReaders \cup {-i}
    /\ pc' = [pc EXCEPT ![i] = "innerRLocked"]
    /\ UNCHANGED aside
    /\ UNCHANGED <<_globalBackend, muWriter, muWaiting, _asyncMod, _asyncModErr,
                   onceDone, onceM, local, ran, outcome, inner, metricsScopes, directSetups,
                   result, callSnap, reader>>

\* return _globalBackend, then the deferred RUnlock(); the factory goes on.
FactoryGlobalBackendReturn(i) ==
    /\ pc[i] = "innerRLocked"
    /\ inner' = [inner EXCEPT ![i] = <<_globalBackend>>]
    /\ observed' = observed \cup {_globalBackend}
    /\ muReaders' = muReaders \ {-i}
    /\ pc' = [pc EXCEPT ![i] = "innerDone"]
    /\ UNCHANGED aside
    /\ UNCHANGED <<_globalBackend, muWriter, muWaiting, _asyncMod, _asyncModErr,
                   onceDone, onceM, local, ran, outcome, metricsScopes, directSetups, result,
                   callSnap, rpc, reads, rret, readSnap>>

----------------------------------------------------------------------------
(* The function registry: task.Register and task.Enqueue, as the README     *)
(* uses them (register at startup, then Enqueue a registered function).    *)

Fns == 1..NumFns

\* The stable identifier derived from a function's identity.
\* Faulty variant: Collide gives every function the same identifier.
FnID_Collide(f) == <<"fn", 0>>
FnID(f) == <<"fn", f>>

\* The error of an Enqueue whose function was never registered.
ErrNotRegistered == 1

\* m with key k set to v.
Put(m, k, v) == [x \in (DOMAIN m) \cup {k} |-> IF x = k THEN v ELSE m[x]]

RegistryInit ==
    /\ fnLookup = <<>>
    /\ registered = {}
    /\ enqueued = <<>>
    /\ enqResult = <<>>

\* task.Register(f): f becomes resolvable by its identifier.
Register(f) ==
    /\ fnLookup' = Put(fnLookup, FnID(f), f)
    /\ registered' = registered \cup {f}
    /\ UNCHANGED <<enqueued, enqResult, taskVars, filterVars>>

\* task.Enqueue(f, ...): the identifier of f is looked up; an unknown one is
\* an error, a known one is handed to the backend.
Enqueue(f) ==
    /\ Len(enqueued) < MaxQueue
    /\ IF FnID(f) \in DOMAIN fnLookup
         THEN /\ enqueued' = Append(enqueued, FnID(f))
              /\ enqResult' = <<[fn |-> f, reg |-> f \in registered,
                                 err |-> NilErr]>>
         ELSE /\ enqResult' = <<[fn |-> f, reg |-> f \in registered,
                                 err |-> ErrNotRegistered]>>
              /\ UNCHANGED enqueued
    /\ UNCHANGED <<fnLookup, registered, taskVars, filterVars>>

RegistryNext ==
    \/ \E f \in Fns : Register(f)
    \/ \E f \in Fns : Enqueue(f)

----------------------------------------------------------------------------
(* uhttp.WithFilters and filtersFromCreateInfo *)

\* The filters an option may carry.
Filters == {"filterA", "filterB"}

\* const _filterKey = "uhttpFilter", and another key a module may use.
_filterKey == "uhttpFilter"
OtherKey == "other"

\* A nil map, and the empty map make(map[string]interface{}).
NilItems == [nil |-> TRUE]
EmptyItems == <<>>

\* A []Filter: the nil slice, or a slice with its elements.
NilSlice == [isNil |-> TRUE, elems |-> <<>>]
Slice(elems) == [isNil |-> FALSE, elems |-> elems]

\* The values stored in Items: a []Filter, or something that is not one
\* (a value of another type, or the nil interface).
FilterValue(slice) == [kind |-> "filters", slice |-> slice]
OtherValue == [kind |-> "other"]
NilValue == [kind |-> "nil"]

\* All sequences of filters of length at most n.
FilterSeqs(n) == UNION {[1..k -> Filters] : k \in 0..n}

\* append(s, fs...): nothing appended to a nil slice is still the nil slice.
AppendSlice(s, fs) == IF fs = <<>> THEN s ELSE Slice(s.elems \o fs)

\* items, ok := mci.Items[_filterKey]; a nil map has no key.
HasKey(items, k) == items # NilItems /\ k \in DOMAIN items

\* filtersFromCreateInfo: nil when the key is absent, a panic when the value
\* is no []Filter (items.([]Filter)), the stored slice otherwise.
\* Faulty variant: Lenient takes a value of another type for no filters.
filtersFromCreateInfo_Lenient(items) ==
    IF ~HasKey(items, _filterKey) \/ items[_filterKey].kind # "filters"
      THEN [panic |-> FALSE, slice |-> NilSlice]
      ELSE [panic |-> FALSE, slice |-> items[_filterKey].slice]
filtersFromCreateInfo(items) ==
    IF ~HasKey(items, _filterKey)
      THEN [panic |-> FALSE, slice |-> NilSlice]
      ELSE IF items[_filterKey].kind # "filters"
        THEN [panic |-> TRUE, slice |-> NilSlice]
        ELSE [panic |-> FALSE, slice |-> items[_filterKey].slice]

\* The body of the option returned by WithFilters(fs...), past the read:
\* the new mci.Items, given the filters read from it.
\* Faulty variant: Overwrite stores the new filters alone.
WithFilters_Overwrite(items, stored, fs) ==
    Put(IF items = NilItems THEN EmptyItems ELSE items, _filterKey,
        FilterValue(AppendSlice(NilSlice, fs)))
WithFilters(items, stored, fs) ==
    Put(IF items = NilItems THEN EmptyItems ELSE items, _filterKey,
        FilterValue(AppendSlice(stored, fs)))

\* The create-infos an option may be applied to.
InitialSlices == {NilSlice} \cup {Slice(l) : l \in FilterSeqs(MaxStored)}
InitialValues == {OtherValue, NilValue} \cup {FilterValue(sl) : sl \in InitialSlices}
InitialItems ==
    {NilItems, EmptyItems, Put(EmptyItems, OtherKey, OtherValue)}
    \cup {Put(EmptyItems, _filterKey, v) : v \in InitialValues}
    \cup {Put(Put(EmptyItems, OtherKey, OtherValue), _filterKey, v) :
            v \in InitialValues}

\* The filters a create-info holds, when it holds a []Filter.
StoredFilters(items) ==
    IF HasKey(items, _filterKey) /\ items[_filterKey].kind = "filters"
      THEN items[_filterKey].slice.elems
      ELSE <<>>

\* No option has been applied, to a create-info without items.
FiltersIdle ==
    /\ Items = NilItems
    /\ items0 = NilItems
    /\ expected = <<>>
    /\ optResult = "none"
    /\ napplied = 0
    /\ got = <<>>

FiltersInit ==
    /\ Items \in InitialItems
    /\ items0 = Items
    /\ expected = StoredFilters(Items)
    /\ optResult = "none"
    /\ napplied = 0
    /\ got = <<>>

\* The option returned by WithFilters(fs...) is applied to the create-info:
\* it panics in filtersFromCreateInfo, or stores the filters and returns nil.
ApplyWithFilters(fs) ==
    /\ napplied < MaxApply
    /\ napplied' = napplied + 1
    /\ LET r == filtersFromCreateInfo(Items) IN
         IF r.panic
           THEN /\ optResult' = "panic"
                /\ UNCHANGED <<Items, expected>>
           ELSE /\ Items' = WithFilters(Items, r.slice, fs)
                /\ optResult' = "nil"
                /\ expected' = expected \o fs
    /\ UNCHANGED <<items0, got, taskVars, registryVars>>

\* The module reads the filters: filtersFromCreateInfo(mci).
ReadFilters ==
    /\ got # <<filtersFromCreateInfo(Items)>>
    /\ got' = <<filtersFromCreateInfo(Items)>>
    /\ UNCHANGED <<Items, items0, expected, optResult, napplied, taskVars,
                   registryVars>>

FiltersNext ==
    \/ \E fs \in FilterSeqs(MaxArgs) : ApplyWithFilters(fs)
    \/ ReadFilters

----------------------------------------------------------------------------

Init == TaskInit /\ RegistryInit /\ FiltersIdle

Next ==
    \/ \E i \in Calls : Install(i)
    \/ \E i \in Calls : OnceLock(i)
    \/ \E i \in Calls : \E o \in MetricsOutcomes : InstallSetupTaskMetrics(i, o)
    \/ DirectSetupTaskMetrics
    \/ \E i \in Calls : CreateFuncCall(i)
    \/ \E i \in Calls : FactoryCallsGlobalBackend(i)
    \/ \E i \in Calls : FactoryRLock(i)
    \/ \E i \in Calls : FactoryGlobalBackendReturn(i)
    \/ \E i \in Calls : \E o \in Outcomes : CreateFuncReturn(i, o)
    \/ \E i \in Calls : Lock(i)
    \/ \E i \in Calls : LockAcquire(i)
    \/ \E i \in Calls : Store(i)
    \/ \E i \in Calls : Unlock(i)
    \/ \E i \in Calls : OnceFinish(i)
    \/ \E i \in Calls : Return(i)
    \/ \E r \in Readers : GlobalBackendCall(r)
    \/ \E r \in Readers : GlobalBackendRLock(r)
    \/ \E r \in Readers : GlobalBackendReturn(r)

Spec == Init /\ [][Next]_vars

\* The steps of install call i once it has started.  Starting a call, and the
\* factory's choice to call GlobalBackend(), are left to the caller and to the
\* factory; every other step is the goroutine's own next step.
CallStep(i) ==
    \/ OnceLock(i)
    \/ \E o \in MetricsOutcomes : InstallSetupTaskMetrics(i, o)
    \/ CreateFuncCall(i)
    \/ FactoryRLock(i)
    \/ FactoryGlobalBackendReturn(i)
    \/ \E o \in Outcomes : CreateFuncReturn(i, o)
    \/ Lock(i)
    \/ LockAcquire(i)
    \/ Store(i)
    \/ Unlock(i)
    \/ OnceFinish(i)
    \/ Return(i)

\* The next step of some goroutine that is inside an install call or inside
\* GlobalBackend().
GoroutineStep ==
    \/ \E i \in Calls : CallStep(i)
    \/ \E r \in Readers : GlobalBackendRLock(r) \/ GlobalBackendReturn(r)

\* The scheduler runs a goroutine that can take a step, and the factory
\* terminates: as long as a started install call or a started GlobalBackend()
\* call can take a step, one of them does.  (Less than the Go scheduler
\* gives, which lets every runnable goroutine run.)
Fairness == WF_vars(GoroutineStep)

FairSpec == Spec /\ Fairness

\* The registry alone, and the options applied to one create-info alone.
RegistrySpec == Init /\ [][RegistryNext]_vars
OptionsInit == TaskInit /\ RegistryInit /\ FiltersInit
FiltersSpec == OptionsInit /\ [][FiltersNext]_vars

----------------------------------------------------------------------------
(* Properties *)

\* The calls whose factory has been invoked, and the calls that have ended.
FactoriesRun == {i \in Calls : ran[i] > 0}
Ended(i) == pc[i] \in {"done", "panicked"}
HasReturned(i) == result[i] # <<>>
\* The backends produced by a factory run that returned without error.
Produced == {Backend(i) : i \in {j \in Calls : outcome[j] = "ok"}}

\* C1: whatever the interleaving of the install calls, at most one call's
\* factory is ever invoked and it is invoked at most once; as soon as some
\* install call has ended, exactly one factory has been invoked, exactly once.
\* (Violated: when the metrics setup of the call that holds the once panics,
\* the once is done with no factory invoked, and none is invoked afterwards.)
C1_OneFactoryOnce ==
    /\ Cardinality(FactoriesRun) <= 1
    /\ \A i \in Calls : ran[i] <= 1
    /\ (\E i \in Calls : Ended(i)) =>
          \E i \in Calls : ran[i] = 1 /\ \A j \in Calls \ {i} : ran[j] = 0

\* C2: any two install calls that have returned have returned the same
\* (module list, error) pair.
C2_SameOutcome ==
    \A i, j \in Calls :
        HasReturned(i) /\ HasReturned(j) => result[i] = result[j]

\* C2 witness: two calls have returned the module of the one successful
\* factory run, one of them being a call whose own factory did not run.
C2_Witness ==
    \E i, j \in Calls :
        /\ i # j /\ HasReturned(i) /\ HasReturned(j)
        /\ ran[i] = 1 /\ ran[j] = 0
        /\ result[j][1] = Returned(AsyncModule(Backend(i), Host(i)), NilErr)

\* A GlobalBackend() call of reader r has returned (its latest one).
ReadReturned(r) == rpc[r] = "idle" /\ rret[r] # <<>>

\* C3: a GlobalBackend() call that starts after some install call has
\* returned with a nil error returns the backend produced by the factory.
\* (Violated: after a factory panic the once is done, a later install call
\* returns a nil module with a nil error, and the backend is still the no-op.)
C3_ReadAfterInstall ==
    \A r \in Readers :
        ReadReturned(r) /\ readSnap[r][1].succ => rret[r][1] \in Produced

\* C4: a GlobalBackend() call that starts after some GlobalBackend() call has
\* returned an installed backend returns that same backend.
C4_NeverReverts ==
    \A r \in Readers :
        ReadReturned(r) =>
            \A v \in readSnap[r][1].seen \ {Nop} : rret[r][1] = v

\* C4 witness: a reader has returned the installed backend after an earlier
\* GlobalBackend() call had returned it, and an install call that started
\* after the successful one has ended.
C4_Witness ==
    /\ \E r \in Readers :
          /\ ReadReturned(r)
          /\ readSnap[r][1].seen \ {Nop} # {}
          /\ rret[r][1] # Nop
    /\ \E j \in Calls : Ended(j) /\ callSnap[j][1].succ # <<>>

\* The assignment to _globalBackend has been made.
BackendStored ==
    \E i \in Calls : outcome[i] = "ok" /\ pc[i] \notin {"lock", "lockWait", "store"}

\* C5: as long as no factory has succeeded and had its backend stored,
\* every GlobalBackend() call made so far has returned the no-op backend.
C5_NopUntilStored == ~BackendStored => observed \subseteq {Nop}

\* C5 witness: a GlobalBackend() call has returned the no-op backend while the
\* successful factory's backend was waiting to be stored.
C5_Witness ==
    /\ \E i \in Calls : outcome[i] = "ok" /\ pc[i] = "lockWait"
    /\ \E r \in Readers : ReadReturned(r) /\ rret[r][1] = Nop

\* C6: when the factory of call i has returned an error, no other factory is
\* ever run and every install call that returns returns (nil module, Err(i)).
C6_FailureTerminal ==
    \A i \in Calls :
        outcome[i] = "err" =>
            /\ ran[i] = 1
            /\ \A j \in Calls \ {i} : ran[j] = 0
            /\ \A j \in Calls :
                  HasReturned(j) => result[j][1] = Returned(NilModule, Err(i))

\* C6 witness: a call that started after the failed install had returned has
\* itself returned, its factory not run.
C6_Witness ==
    \E i, j \in Calls :
        /\ outcome[i] = "err" /\ i # j
        /\ callSnap[j] # <<>> /\ callSnap[j][1].after
        /\ HasReturned(j) /\ ran[j] = 0

\* C7: when the factory has returned an error, the global backend is the
\* no-op backend and no GlobalBackend() call has returned anything else.
C7_FailureLeavesNop ==
    (\E i \in Calls : outcome[i] = "err") =>
        _globalBackend = Nop /\ observed \subseteq {Nop}

\* C7 witness: a GlobalBackend() call that started after the failed install
\* call had returned has returned the no-op backend.
C7_Witness ==
    /\ \E i \in Calls : outcome[i] = "err" /\ HasReturned(i)
    /\ \E r \in Readers :
          ReadReturned(r) /\ readSnap[r][1].after /\ rret[r][1] = Nop

\* C8: an install call that starts after an install call has returned with a
\* nil error runs no factory and no metrics setup, leaves the global backend,
\* the stored module and the stored error as they were, and returns the stored
\* module, which was not built from its host.
C8_LateCallIgnored ==
    \A j \in Calls :
        (callSnap[j] # <<>> /\ callSnap[j][1].succ # <<>>) =>
            LET s == callSnap[j][1].succ[1] IN
            /\ ran[j] = 0
            /\ ran = s.ran
            /\ metricsScopes = s.scopes
            /\ \A k \in 1..Len(metricsScopes) :
                  metricsScopes[k].by # j /\ metricsScopes[k].scope # Host(j)
            /\ _globalBackend = s.gb
            /\ _asyncMod = s.mod
            /\ _asyncModErr = s.err
            /\ HasReturned(j) =>
                  /\ result[j][1] = Returned(s.mod, s.err)
                  /\ s.mod # NilModule => s.mod.host # Host(j)

\* C8 witness: such a late call has returned the installed module.
C8_Witness ==
    \E j \in Calls :
        /\ callSnap[j] # <<>> /\ callSnap[j][1].succ # <<>>
        /\ HasReturned(j)
        /\ result[j][1].mods[1] # NilModule
        /\ result[j][1].mods[1].Backend = _globalBackend

\* C9: the global backend, and every value a GlobalBackend() call has
\* returned, is the no-op backend or the backend of a factory run that
\* succeeded, and there is at most one such backend.
C9_AtMostOneBackend ==
    /\ _globalBackend \in {Nop} \cup Produced
    /\ observed \subseteq {Nop} \cup Produced
    /\ Cardinality(Produced) <= 1

\* C9 witness: readers have seen the no-op backend and the installed one.
C9_Witness ==
    /\ Nop \in observed
    /\ observed \ {Nop} # {}
    /\ _globalBackend \in Produced

\* The one run of newAsyncModule under the once has ended: its factory has
\* returned or panicked, or its metrics setup has panicked before the factory.
InitEnded ==
    \E i \in Calls :
        \/ outcome[i] \in Outcomes /\ pc[i] \in {"ret", "done", "panicked"}
        \/ pc[i] = "panicked" /\ ran[i] = 0

\* C10: when an install call has returned, the once is done, no call is in
\* the metrics setup or in a factory, the one run of newAsyncModule has ended,
\* and the backend of a successful run is stored in the global backend.
C10_NoEarlyReturn ==
    \A j \in Calls :
        HasReturned(j) =>
            /\ onceDone
            /\ ~FactoryRunning
            /\ \A i \in Calls : pc[i] \notin {"metrics", "create"}
            /\ InitEnded
            /\ \A i \in Calls : outcome[i] = "ok" => _globalBackend = Backend(i)

\* C10 witness: a call that started while another call's factory was running
\* has returned after that factory succeeded.
C10_Witness ==
    \E i, j \in Calls :
        /\ i # j /\ outcome[i] = "ok"
        /\ callSnap[j] # <<>> /\ callSnap[j][1].during
        /\ HasReturned(j) /\ ran[j] = 0

\* Call i is inside newAsyncModule before the backend is stored: in the
\* metrics setup or in the factory.
InSetupOrFactory(i) ==
    pc[i] \in {"metrics", "create", "creating", "innerRLock", "innerRLocked",
               "innerDone"}

\* C11: while an install call is in the metrics setup or in the factory, the
\* write lock is neither held nor awaited, so RLock() succeeds at once; the
\* write lock is held only around the assignment to _globalBackend.
C11_ReadNotBlockedByInstall ==
    /\ \A i \in Calls : InSetupOrFactory(i) => CanRLock
    /\ muWriter # 0 => pc[muWriter] \in {"store", "unlock"}
    /\ muWaiting => \E i \in Calls : pc[i] = "lockWait"

\* C11 witness: the factory is still running and the one GlobalBackend() call
\* a reader has made has returned; it was issued while the factory ran, for
\* it started after the factory's own GlobalBackend() call had returned.
C11_Witness ==
    /\ FactoryRunning
    /\ reads = 1
    /\ \E r \in Readers : ReadReturned(r) /\ readSnap[r][1].seen = {Nop}

\* C13: an install call that has returned a nil error has returned a non-nil
\* module whose backend is the global backend, in every state from then on.
\* (Violated: after a factory panic a later call returns a nil module with a
\* nil error.)
C13_NilErrorHasModule ==
    \A j \in Calls :
        (HasReturned(j) /\ result[j][1].err = NilErr) =>
            /\ result[j][1].mods[1] # NilModule
            /\ result[j][1].mods[1].Backend = _globalBackend

\* The hosts of the calls that started after an install call had returned.
LateHosts == {Host(j) : j \in {k \in Calls : callSnap[k] # <<>> /\ callSnap[k][1].after}}

\* The metrics setup install call i makes.
SetupOf(i) == [scope |-> Host(i), by |-> i]

\* C14: install calls make the metrics setup at most once (service code may
\* make others by calling SetupTaskMetrics itself); when a factory has been
\* invoked the setup has been made, with the host of the call whose factory it
\* is, also when the factory then fails; it is never made with the host of a
\* call that started after another install call had returned.
C14_MetricsOnceBeforeFactory ==
    /\ Len(metricsScopes) <= 1
    /\ \A i \in Calls : ran[i] > 0 => metricsScopes = <<SetupOf(i)>>
    /\ \A i \in Calls : pc[i] = "create" => metricsScopes = <<SetupOf(i)>> /\ ran[i] = 0
    /\ \A k \in 1..Len(metricsScopes) : metricsScopes[k].scope \notin LateHosts

\* C14 witness: the factory has failed after the one metrics setup of the
\* install calls, service code has made a setup of its own, and a later call
\* has returned without another setup.
C14_Witness ==
    \E i, j \in Calls :
        /\ i # j /\ outcome[i] = "err"
        /\ metricsScopes = <<SetupOf(i)>>
        /\ Len(directSetups) = 1
        /\ HasReturned(j) /\ callSnap[j][1].after

\* C15: what an install call returns is a list of exactly one module: the
\* stored module with a nil error, or the nil module with the stored error.
C15_OneModuleReturned ==
    \A j \in Calls :
        HasReturned(j) =>
            /\ Len(result[j][1].mods) = 1
            /\ result[j][1].err = _asyncModErr
            /\ result[j][1].err = NilErr => result[j][1].mods[1] = _asyncMod
            /\ result[j][1].err # NilErr => result[j][1].mods[1] = NilModule

\* C15 witness: a call whose factory was not run has returned the list of one
\* nil module together with the error of the failed factory.
C15_Witness ==
    \E i, j \in Calls :
        /\ i # j /\ outcome[i] = "err"
        /\ result[j] = <<[mods |-> <<NilModule>>, err |-> Err(i)]>>

\* No call is in progress: every install call that has started has ended (it
\* has returned, or the panic of its own metrics setup or factory has left it) and every
\* GlobalBackend() call that has started has returned.
Quiet ==
    /\ \A i \in Calls : pc[i] = "idle" \/ Ended(i)
    /\ \A i \in Calls :
          pc[i] = "panicked" => outcome[i] = "panic" \/ ran[i] = 0
    /\ \A r \in Readers : rpc[r] = "idle"
    /\ muReaders = {} /\ CanRLock

\* C16: under fair scheduling, with a factory that terminates, the calls in
\* progress all end, again and again: no install call and no GlobalBackend()
\* call stays blocked, the one made by the running factory included, and that
\* one returns the no-op backend.
C16_EveryCallEnds ==
    /\ []<>Quiet
    /\ [](\A i \in Calls : inner[i] # <<>> => inner[i] = <<Nop>>)

\* C16 witness: the factory's own GlobalBackend() call has returned the no-op
\* backend while another install call waits for the once and a reader holds
\* the read lock.
C16_Witness ==
    \E i, j \in Calls :
        /\ i # j /\ pc[i] = "innerDone" /\ inner[i] = <<Nop>>
        /\ pc[j] = "onceLock"
        /\ \E r \in Readers : rpc[r] = "rlocked"

\* C12: every function Register has accepted is resolved by its identifier to
\* itself; an Enqueue of a function that had been registered succeeds and
\* hands its identifier to the backend, an Enqueue of one that had not fails
\* with the not-registered error and hands nothing over.
C12_RegisteredResolvable ==
    /\ \A f \in registered :
          FnID(f) \in DOMAIN fnLookup /\ fnLookup[FnID(f)] = f
    /\ enqResult # <<>> =>
          LET e == enqResult[1] IN
          /\ e.reg => e.err = NilErr /\ enqueued[Len(enqueued)] = FnID(e.fn)
          /\ ~e.reg => e.err = ErrNotRegistered
          /\ e.fn \notin registered => e.err = ErrNotRegistered
    /\ \A k \in 1..Len(enqueued) : \E f \in registered : enqueued[k] = FnID(f)

\* C12 witness: two functions are registered, one of them was enqueued, and
\* the last Enqueue, of a third function, failed.
C12_Witness ==
    /\ Cardinality(registered) = 2
    /\ Len(enqueued) = 1
    /\ enqResult # <<>> /\ enqResult[1].err = ErrNotRegistered

\* C17: when an option has returned, Items is a map that holds under the
\* filter key the filters stored at first followed by the filters of every
\* option applied, in order; the other keys are as they were; the option
\* returned nil.
C17_FiltersAccumulate ==
    optResult = "nil" =>
        /\ Items # NilItems
        /\ HasKey(Items, _filterKey)
        /\ Items[_filterKey].kind = "filters"
        /\ Items[_filterKey].slice.elems = expected
        /\ DOMAIN Items =
              (IF items0 = NilItems THEN {} ELSE DOMAIN items0) \cup {_filterKey}
        /\ \A k \in DOMAIN Items \ {_filterKey} : Items[k] = items0[k]

\* C17 witness: two options with two filters each were applied to a
\* create-info that held one filter already.
C17_Witness ==
    /\ optResult = "nil"
    /\ napplied = 2
    /\ Len(StoredFilters(items0)) = 1
    /\ Len(expected) = 5
    /\ expected[2] # expected[3]

\* The create-info held, before any option, a value that is no []Filter
\* under the filter key.
BadItems == HasKey(items0, _filterKey) /\ items0[_filterKey].kind # "filters"

\* C18: a read of the filters yields nil, without panic, when the key is
\* absent, and panics when the value under the key is no filter slice; an
\* option panics exactly on such a create-info, and leaves Items as it was.
C18_BadValuePanics ==
    /\ got # <<>> =>
          /\ ~HasKey(Items, _filterKey) =>
                got[1] = [panic |-> FALSE, slice |-> NilSlice]
          /\ BadItems => got[1].panic
          /\ got[1].panic => BadItems
    /\ BadItems => Items = items0 /\ optResult \in {"none", "panic"}
    /\ BadItems /\ napplied > 0 => optResult = "panic"
    /\ optResult = "panic" => BadItems

\* C18 witness: options were applied to a create-info with a bad value, the
\* last one panicked, and a read of the filters panicked too.
C18_Witness ==
    /\ BadItems
    /\ napplied = 2
    /\ optResult = "panic"
    /\ got # <<>> /\ got[1].panic

====
